---- MODULE Spec2Model ----
(***************************************************************************)
(* Small-step model of the control-flow engine of src/flow/__init__.py:    *)
(* State / Tape / Flow / Loop / switch.  A driver builds a composed Flow   *)
(* by evaluating a constructor expression, creates a fresh State and calls *)
(* operate once; the call tree of nested flows is the control stack.       *)
(***************************************************************************)
EXTENDS Integers, Sequences, FiniteSets, TLC

\* ---------------------------------------------------------------- bounds
\* largest limit a condition flow compares a variable against
MaxLimit == 3

\* ------------------------------------------------------------ identities
\* CONDITION = Var('?', ...)
CONDITION == "?"

\* identities of the Loop objects a program may build
LoopIds == {"L1", "L2"}

\* Loop.__init__: self.counter = Var('counter', ...), a fresh Var per Loop
Counter(id) == IF id = "L1" THEN "counter1" ELSE "counter2"

\* ------------------------------------------------------- python helpers
EmptyMap == [k \in {} |-> 0]

Put(f, k, v) == [a \in (DOMAIN f) \cup {k} |-> IF a = k THEN v ELSE f[a]]

Del(f, k) == [a \in (DOMAIN f) \ {k} |-> f[a]]

\* the absent value of an optional argument
None == [kind |-> "none"]

\* a list passed for an optional argument
List(seq) == [kind |-> "list", list |-> seq]

\* seq[i] with python's list indexing (0-based, negative counts from the end)
PyIndexOk(seq, i) == IF i >= 0 THEN i < Len(seq) ELSE 0 - i <= Len(seq)

PyIndex(seq, i) == IF i >= 0 THEN seq[i + 1] ELSE seq[Len(seq) + i + 1]

\* results of an operation on the State: normal return or a raised exception
Ok(st, v) == [exc |-> "none", state |-> st, val |-> v]

Raise(st, e) == [exc |-> e, state |-> st, val |-> 0]

\* ------------------------------------------------------------------ Tape
\* Tape.__init__: histories = {}
TapeInit == EmptyMap

\* Tape.__setitem__ that keeps only the latest value
TapeSetItem_Overwrite(histories, var, value) == Put(histories, var, <<value>>)

\* Tape.__setitem__: create the history on first use, then append
TapeSetItem(histories, var, value) ==
    Put(histories, var,
        Append(IF var \in DOMAIN histories THEN histories[var] ELSE <<>>, value))

\* the for loop of Tape.advance over the listed variables
RECURSIVE TapeCapture(_, _, _)
TapeCapture(histories, values, vars) ==
    IF vars = <<>> THEN histories
    ELSE TapeCapture(IF Head(vars) \in DOMAIN values
                        THEN TapeSetItem(histories, Head(vars), values[Head(vars)])
                        ELSE histories,
                     values, Tail(vars))

\* Tape.__getitem__ that answers 0 for a variable without a history
TapeGetItem_Default(st, histories, var, index) ==
    IF var \notin DOMAIN histories THEN Ok(st, 0)
    ELSE IF ~PyIndexOk(histories[var], index) THEN Raise(st, "IndexError")
    ELSE Ok(st, PyIndex(histories[var], index))

\* Tape.__getitem__: histories[var][index]
TapeGetItem(st, histories, var, index) ==
    IF var \notin DOMAIN histories THEN Raise(st, "KeyError")
    ELSE IF ~PyIndexOk(histories[var], index) THEN Raise(st, "IndexError")
    ELSE Ok(st, PyIndex(histories[var], index))

\* ----------------------------------------------------------------- State
\* State.__init__
StateInit == [values |-> EmptyMap, loops |-> <<>>, tapes |-> EmptyMap,
              saved_tapes |-> EmptyMap]

\* State.push_loop that puts the loop at the bottom of the stack
push_loop_Front(st, loop) ==
    [st EXCEPT !.loops = <<loop>> \o st.loops,
               !.tapes = Put(st.tapes, loop.id, TapeInit),
               !.values = Put(st.values, loop.counter, 0 - 1)]

\* State.push_loop that starts the counter at 0
push_loop_CounterZero(st, loop) ==
    [st EXCEPT !.loops = Append(st.loops, loop),
               !.tapes = Put(st.tapes, loop.id, TapeInit),
               !.values = Put(st.values, loop.counter, 0)]

\* State.push_loop that leaves the Tape and counter of a loop it already holds
push_loop_KeepTape(st, loop) ==
    IF loop.id \in DOMAIN st.tapes
    THEN [st EXCEPT !.loops = Append(st.loops, loop)]
    ELSE [st EXCEPT !.loops = Append(st.loops, loop),
                    !.tapes = Put(st.tapes, loop.id, TapeInit),
                    !.values = Put(st.values, loop.counter, 0 - 1)]

\* State.push_loop
push_loop(st, loop) ==
    [st EXCEPT !.loops = Append(st.loops, loop),
               !.tapes = Put(st.tapes, loop.id, TapeInit),
               !.values = Put(st.values, loop.counter, 0 - 1)]

\* State.pop_loop that leaves the counter of an unsaved loop in values
pop_loop_KeepCounter(st) ==
    IF st.loops = <<>> THEN Raise(st, "IndexError")
    ELSE LET loop == st.loops[Len(st.loops)]
             s1 == [st EXCEPT !.loops = SubSeq(st.loops, 1, Len(st.loops) - 1)]
         IN IF loop.save THEN Ok(s1, 0)
            ELSE IF loop.id \notin DOMAIN s1.tapes THEN Raise(s1, "KeyError")
            ELSE Ok([s1 EXCEPT !.tapes = Del(s1.tapes, loop.id)], 0)

\* State.pop_loop
pop_loop(st) ==
    IF st.loops = <<>> THEN Raise(st, "IndexError")
    ELSE LET loop == st.loops[Len(st.loops)]
             s1 == [st EXCEPT !.loops = SubSeq(st.loops, 1, Len(st.loops) - 1)]
         IN IF loop.save THEN Ok(s1, 0)
            ELSE IF loop.id \notin DOMAIN s1.tapes THEN Raise(s1, "KeyError")
            ELSE LET s2 == [s1 EXCEPT !.tapes = Del(s1.tapes, loop.id)]
                 IN IF loop.counter \notin DOMAIN s2.values
                       THEN Raise(s2, "KeyError")
                       ELSE Ok([s2 EXCEPT !.values = Del(s2.values, loop.counter)], 0)

\* Tape.advance that forgets the default of only_vars
TapeAdvance_NoDefault(st, loop, only_vars) ==
    IF loop.counter \notin DOMAIN st.values THEN Raise(st, "KeyError")
    ELSE LET s1 == [st EXCEPT !.values[loop.counter] = @ + 1]
             vars == IF only_vars # None THEN only_vars.list ELSE <<>>
         IN Ok([s1 EXCEPT !.tapes[loop.id] = TapeCapture(@, s1.values, vars)], 0)

\* Tape.advance that leaves the counter alone
TapeAdvance_NoCount(st, loop, only_vars) ==
    IF loop.counter \notin DOMAIN st.values THEN Raise(st, "KeyError")
    ELSE LET vars == IF only_vars # None THEN only_vars.list ELSE loop.vars
         IN Ok([st EXCEPT !.tapes[loop.id] = TapeCapture(@, st.values, vars)], 0)

\* Tape.advance, on the Tape of loop held in st.tapes
TapeAdvance(st, loop, only_vars) ==
    IF loop.counter \notin DOMAIN st.values THEN Raise(st, "KeyError")
    ELSE LET s1 == [st EXCEPT !.values[loop.counter] = @ + 1]
             vars == IF only_vars # None THEN only_vars.list ELSE loop.vars
         IN Ok([s1 EXCEPT !.tapes[loop.id] = TapeCapture(@, s1.values, vars)], 0)

\* State.advance
advance(st, loop, only_vars) ==
    IF loop.id \notin DOMAIN st.tapes THEN Raise(st, "KeyError")
    ELSE TapeAdvance(st, loop, only_vars)

\* State.__getitem__ for the three key forms: var, (var, index),
\* (loop or relative depth, var, index)
StateGetItem(st, key) ==
    IF key.form = "var"
    THEN IF key.var \in DOMAIN st.values THEN Ok(st, st.values[key.var])
         ELSE Raise(st, "KeyError")
    ELSE LET byDepth == ~(key.form = "tuple3" /\ key.isLoop)
             depth == IF key.form = "tuple3" THEN key.loop ELSE 0 - 1
         IN IF byDepth /\ ~PyIndexOk(st.loops, depth) THEN Raise(st, "IndexError")
            ELSE LET loop == IF byDepth THEN PyIndex(st.loops, depth).id ELSE key.loop
                 IN IF loop \notin DOMAIN st.tapes THEN Raise(st, "KeyError")
                    ELSE TapeGetItem(st, st.tapes[loop], key.var, key.index)

\* test_condition that takes an absent CONDITION for false
test_condition_Default(st) ==
    IF CONDITION \notin DOMAIN st.values THEN Ok(st, FALSE)
    ELSE Ok([st EXCEPT !.values = Del(st.values, CONDITION)], st.values[CONDITION])

\* test_condition
test_condition(st) ==
    IF CONDITION \notin DOMAIN st.values THEN Raise(st, "KeyError")
    ELSE Ok([st EXCEPT !.values = Del(st.values, CONDITION)], st.values[CONDITION])

\* ------------------------------------------------------------------ Flow
\* an exception raised while a flow is being constructed
Raised(e) == [kind |-> "raise", exc |-> e]

IsRaised(v) == v.kind = "raise"

\* Flow.__init__(self, name, flow_op): two required positional arguments
FlowInit(args) ==
    IF Len(args) = 2 THEN [kind |-> "flow", name |-> args[1], flow_op |-> args[2]]
    ELSE Raised("TypeError")

\* flow(flow_op): Flow(flow_op.__name__, flow_op)
flow(flow_op) == FlowInit(<<flow_op.op, flow_op>>)

\* values that are Flows (Loop is a subclass of Flow)
IsFlow(v) == v.kind \in {"flow", "loop"}

\* values with a name attribute: Flow, Loop and Var
HasName(v) == v.kind \in {"flow", "loop", "var"}

\* Flow.__rshift__ whose chain runs other before self
Rshift_Swapped(self, other) ==
    IF other = None THEN self
    ELSE FlowInit(<<"->", [op |-> "chain", self |-> other, other |-> self]>>)

\* Flow.__rshift__ that chains self with itself when other is absent
Rshift_Twice(self, other) ==
    FlowInit(<<"->", [op |-> "chain", self |-> self,
                      other |-> IF other = None THEN self ELSE other]>>)

\* Flow.__rshift__; the name of the chain is formatted from other.name
Rshift(self, other) ==
    IF other = None THEN self
    ELSE IF ~HasName(other) THEN Raised("AttributeError")
    ELSE FlowInit(<<"->", [op |-> "chain", self |-> self, other |-> other]>>)

\* Loop.__init__
LoopInit(id, body_flow, condition_flow, loop_vars, save, check_first, initial_vars) ==
    [kind |-> "loop", id |-> id, name |-> "Loop",
     body_flow |-> body_flow, condition_flow |-> condition_flow,
     vars |-> loop_vars, save |-> save, counter |-> Counter(id),
     check_first |-> check_first, initial_vars |-> initial_vars]

\* switch(yes, no): return Flow(check), one positional argument
switch(yes, no) == FlowInit(<<[op |-> "check", yes |-> yes, no |-> no]>>)

\* ------------------------------------------------- user-supplied flow_ops
\* the bodies of the ordinary flows a caller wraps with @flow; each reads
\* and writes the State through State.__getitem__ / State.__setitem__
FlowOp(op, st) ==
    CASE op.op = "InitX" -> Ok([st EXCEPT !.values = Put(@, "x", 0)], 0)
      [] op.op = "IncX" ->
            IF "x" \in DOMAIN st.values
               THEN Ok([st EXCEPT !.values = Put(@, "x", st.values["x"] + 1)], 0)
               ELSE Raise(st, "KeyError")
      [] op.op = "CopyXY" ->
            IF "x" \in DOMAIN st.values
               THEN Ok([st EXCEPT !.values = Put(@, "y", st.values["x"])], 0)
               ELSE Raise(st, "KeyError")
      [] op.op = "CondXlt" ->
            IF "x" \in DOMAIN st.values
               THEN Ok([st EXCEPT !.values = Put(@, CONDITION, st.values["x"] < op.arg)], 0)
               ELSE Raise(st, "KeyError")
      [] op.op = "SetCond" ->
            Ok([st EXCEPT !.values = Put(@, CONDITION, op.arg = 1)], 0)
      [] op.op = "Nop" -> Ok(st, 0)
      [] op.op = "Peek" ->
            LET r == StateGetItem(st, [form |-> "tuple2", var |-> "y", index |-> op.arg])
            IN IF r.exc # "none" THEN r
               ELSE Ok([st EXCEPT !.values = Put(@, "r", r.val)], 0)

\* --------------------------------------------- constructor expressions
\* the expression the driver evaluates to build its top-level Flow
RECURSIVE Eval(_)
Eval(x) ==
    CASE x.e = "flow" -> flow(x.op)
      [] x.e = "none" -> None
      [] x.e = "value" -> x.v
      [] x.e = "rshift" ->
            LET l == Eval(x.l)
                r == Eval(x.r)
            IN IF IsRaised(l) THEN l
               ELSE IF IsRaised(r) THEN r
               ELSE IF ~IsFlow(l) THEN Raised("TypeError")
               ELSE Rshift(l, r)
      [] x.e = "loop" ->
            LET b == Eval(x.body)
                c == Eval(x.cond)
            IN IF IsRaised(b) THEN b
               ELSE IF IsRaised(c) THEN c
               ELSE LoopInit(x.id, b, c, x.vars, x.save, x.check_first, x.initial_vars)
      [] x.e = "switch" ->
            LET y == Eval(x.yes)
                n == Eval(x.no)
            IN IF IsRaised(y) THEN y
               ELSE IF IsRaised(n) THEN n
               ELSE switch(y, n)

\* ------------------------------------------------------------- programs
\* constructor expressions
F(op, arg) == [e |-> "flow", op |-> [op |-> op, arg |-> arg]]

R(l, r) == [e |-> "rshift", l |-> l, r |-> r]

N == [e |-> "none"]

L(id, body, cond, loop_vars, save, check_first, initial_vars) ==
    [e |-> "loop", id |-> id, body |-> body, cond |-> cond, vars |-> loop_vars,
     save |-> save, check_first |-> check_first, initial_vars |-> initial_vars]

S(yes, no) == [e |-> "switch", yes |-> yes, no |-> no]

\* the loop nested in the body of L1; it tracks x as L1 does
Inner(save) == L("L2", F("IncX", 0), F("CondXlt", 2), <<"x">>, save, FALSE, None)

Bodies ==
    {F("IncX", 0), R(F("CopyXY", 0), F("IncX", 0))}
    \cup {Inner(s) : s \in BOOLEAN}

InitialVars == {None, List(<<>>), List(<<"x">>)}

LoopVars == {<<"x">>, <<"x", "y">>}

\* x = 0, then a Loop L1 on x < k
LoopPrograms ==
    {R(F("InitX", 0), L("L1", b, F("CondXlt", k), lv, s, cf, iv)) :
        b \in Bodies, k \in 0..MaxLimit, lv \in LoopVars,
        s \in BOOLEAN, cf \in BOOLEAN, iv \in InitialVars}

\* CONDITION is set, then a switch dispatches on it
SwitchPrograms ==
    {R(F("SetCond", c), S(F("InitX", 0), no)) :
        c \in 0..1, no \in {N, F("CopyXY", 0)}}

\* x = 0, y = x, then a Loop L1 whose body or condition flow first reads
\* entry i of y in the innermost Tape (r = state[(y, i)])
PeekPrograms ==
    {R(F("InitX", 0), R(F("CopyXY", 0),
        L("L1",
          IF inBody THEN R(F("Peek", i), F("IncX", 0)) ELSE F("IncX", 0),
          IF inBody THEN F("CondXlt", k) ELSE R(F("Peek", i), F("CondXlt", k)),
          lv, s, TRUE, None))) :
        inBody \in BOOLEAN, i \in {0, 0 - 1}, k \in 1..2, lv \in LoopVars,
        s \in BOOLEAN}

\* a Loop L1 whose condition flow returns without setting CONDITION; in the
\* second and third family the body, and a flow before the loop, set it
SilentConditionPrograms ==
    {R(F("InitX", 0), L("L1", F("IncX", 0), F("Nop", 0), <<"x">>, s, cf, None)) :
        s \in BOOLEAN, cf \in BOOLEAN}
    \cup {R(F("InitX", 0),
             L("L1", R(F("IncX", 0), F("CondXlt", k)), F("Nop", 0), <<"x">>, s,
               FALSE, None)) : s \in BOOLEAN, k \in 0..MaxLimit}
    \cup {R(F("InitX", 0), R(F("CondXlt", k),
             L("L1", R(F("IncX", 0), F("CondXlt", k)), F("Nop", 0), <<"x">>, s,
               TRUE, None))) : s \in BOOLEAN, k \in 0..MaxLimit}

\* a switch is invoked on a fresh State, where CONDITION is absent
BareSwitchPrograms == {S(F("InitX", 0), no) : no \in {N, F("CopyXY", 0)}}

\* x = 0, then a Loop L1 on x < k whose body, after x += 1, sets CONDITION
\* to c and dispatches on it with a nested switch
NestedSwitchPrograms ==
    {R(F("InitX", 0),
       L("L1", R(F("IncX", 0), R(F("SetCond", c), S(F("CopyXY", 0), N))),
         F("CondXlt", k), <<"x">>, s, cf, None)) :
        c \in 0..1, k \in 0..MaxLimit, s \in BOOLEAN, cf \in BOOLEAN}

\* x = 0, then a Loop L1 on x < k whose body first invokes L1 itself on the
\* same State while x < d (after x += 1), then does x += 1
ReentrantPrograms ==
    {R(F("InitX", 0),
       L("L1", R(F("Recur", d), F("IncX", 0)), F("CondXlt", k), <<"x">>, s, cf,
         iv)) :
        d \in 1..2, k \in 0..MaxLimit, s \in BOOLEAN, cf \in BOOLEAN,
        iv \in InitialVars}

\* values that are neither a Flow nor None: an int and the Var x
NonFlows == {[kind |-> "int", name |-> "5"], [kind |-> "var", name |-> "x"]}

V(v) == [e |-> "value", v |-> v]

\* x = 0 sequenced with a value that is not a Flow
ComposePrograms == {R(F("InitX", 0), V(v)) : v \in NonFlows}

\* the flows composed by the sequencing scripts
Parts ==
    {F("InitX", 0), F("IncX", 0), F("CopyXY", 0),
     L("L1", F("IncX", 0), F("CondXlt", 2), <<"x">>, FALSE, TRUE, None)}

\* what the driver runs, each expression on a fresh State
Scripts ==
    {[kind |-> "single", exprs |-> <<p>>, parts |-> <<>>] :
        p \in LoopPrograms \cup SwitchPrograms \cup PeekPrograms
              \cup SilentConditionPrograms \cup BareSwitchPrograms
              \cup ComposePrograms \cup NestedSwitchPrograms}
    \cup {[kind |-> "assoc", exprs |-> <<R(R(f, g), h), R(f, R(g, h))>>,
           parts |-> <<f, g, h>>] : f \in Parts, g \in Parts, h \in Parts}
    \cup {[kind |-> "ident", exprs |-> <<R(f, N), f>>, parts |-> <<f>>] :
           f \in Parts \cup {R(F("InitX", 0), g) : g \in Parts}}

\* ---------------------------------------------------------------- state
VARIABLES script, run, phase, state, stack, err, results, obs, log

vars == <<script, run, phase, state, stack, err, results, obs, log>>

\* what has been observed of each Loop during the current run: whether it
\* is active, its configuration, how often its body was called and its
\* condition consumed, the first condition consumed, the values on entry
\* and after the latest body execution, and its Tape when it was popped
ObsInit ==
    [id \in LoopIds |->
        [status |-> "idle", loop |-> None, runs |-> 0, tests |-> 0,
         first |-> FALSE, entry |-> EmptyMap, last |-> EmptyMap,
         exit |-> EmptyMap]]

\* a call of flow.operate(inputs, state)
Frame(f) == [flow |-> f, pc |-> "enter", stop |-> FALSE]

Top == stack[Len(stack)]

Running == phase = "run" /\ stack # <<>>

IsLoop == Running /\ Top.flow.kind = "loop"

IsChain == Running /\ Top.flow.kind = "flow" /\ Top.flow.flow_op.op = "chain"

IsUser ==
    /\ Running
    /\ Top.flow.kind = "flow"
    /\ Top.flow.flow_op.op \notin {"chain", "Recur"}

IsRecur == Running /\ Top.flow.kind = "flow" /\ Top.flow.flow_op.op = "Recur"

\* the Loop object whose body holds the running flow
Enclosing ==
    LET loops == {i \in 1..Len(stack) : stack[i].flow.kind = "loop"}
    IN stack[CHOOSE i \in loops : \A j \in loops : j <= i].flow

Goto(pc) == [stack EXCEPT ![Len(stack)].pc = pc]

Returned == SubSeq(stack, 1, Len(stack) - 1)

\* the effect of a State operation: continue at stack s, or propagate the
\* exception to the driver (no flow catches anything)
Apply(r, s) ==
    /\ state' = r.state
    /\ IF r.exc = "none" THEN stack' = s /\ err' = err
       ELSE stack' = <<>> /\ err' = r.exc

Init ==
    /\ script \in Scripts
    /\ run = 1
    /\ phase = "build"
    /\ state = StateInit
    /\ stack = <<>>
    /\ err = "none"
    /\ results = <<>>
    /\ obs = ObsInit
    /\ log = <<>>

\* ------------------------------------------------------------- the driver
\* build the flow, create a fresh State, call operate
Construct ==
    /\ phase = "build"
    /\ LET f == Eval(script.exprs[run])
       IN /\ phase' = "run"
          /\ state' = StateInit
          /\ obs' = ObsInit
          /\ log' = <<>>
          /\ IF IsRaised(f) THEN stack' = <<>> /\ err' = f.exc
             ELSE stack' = <<Frame(f)>> /\ err' = "none"
    /\ UNCHANGED <<script, run, results>>

\* operate has returned or raised: the driver keeps the outcome
Finish ==
    /\ phase = "run"
    /\ stack = <<>>
    /\ results' = Append(results, [state |-> state, err |-> err, log |-> log])
    /\ IF run < Len(script.exprs)
          THEN run' = run + 1 /\ phase' = "build"
          ELSE run' = run /\ phase' = "done"
    /\ UNCHANGED <<script, state, stack, err, obs, log>>

\* ------------------------------------------------------------ Flow.operate
\* an ordinary flow: operate calls the user's flow_op
OperateUser ==
    /\ IsUser
    /\ Apply(FlowOp(Top.flow.flow_op, state), Returned)
    /\ log' = Append(log, Top.flow.flow_op.op)
    /\ UNCHANGED <<script, run, phase, results, obs>>

\* a flow of a Loop's body that invokes that Loop again:
\* if state[x] < d: state[x] += 1; loop.operate(inputs, state)
UserRecur ==
    /\ IsRecur
    /\ IF "x" \notin DOMAIN state.values
          THEN Apply(Raise(state, "KeyError"), Returned)
          ELSE IF state.values["x"] < Top.flow.flow_op.arg
          THEN Apply(Ok([state EXCEPT !.values["x"] = @ + 1], 0),
                     Append(Returned, Frame(Enclosing)))
          ELSE Apply(Ok(state, 0), Returned)
    /\ log' = Append(log, Top.flow.flow_op.op)
    /\ UNCHANGED <<script, run, phase, results, obs>>

\* chain: self.operate(inputs, state)
ChainSelf ==
    /\ IsChain
    /\ Top.pc = "enter"
    /\ stack' = Append(Goto("other"), Frame(Top.flow.flow_op.self))
    /\ UNCHANGED <<script, run, phase, state, err, results, obs, log>>

\* chain: other.operate(inputs, state), then chain returns
ChainOther ==
    /\ IsChain
    /\ Top.pc = "other"
    /\ IF IsFlow(Top.flow.flow_op.other)
          THEN stack' = Append(Returned, Frame(Top.flow.flow_op.other)) /\ err' = err
          ELSE stack' = <<>> /\ err' = "AttributeError"
    /\ UNCHANGED <<script, run, phase, state, results, obs, log>>

\* ------------------------------------------------------- Loop's flow_op
\* state.push_loop(self)
LoopPush ==
    /\ IsLoop
    /\ Top.pc = "enter"
    /\ state' = push_loop(state, Top.flow)
    /\ stack' = Goto("baseline")
    /\ obs' = [obs EXCEPT ![Top.flow.id] =
                 [status |-> "active", loop |-> Top.flow, runs |-> 0, tests |-> 0,
                  first |-> FALSE, entry |-> state.values, last |-> state.values,
                  exit |-> EmptyMap]]
    /\ UNCHANGED <<script, run, phase, err, results, log>>

\* state.advance(self, only_vars=initial_vars); stop = False
LoopBaseline ==
    /\ IsLoop
    /\ Top.pc = "baseline"
    /\ Apply(advance(state, Top.flow, Top.flow.initial_vars),
             [stack EXCEPT ![Len(stack)].pc = "check", ![Len(stack)].stop = FALSE])
    /\ UNCHANGED <<script, run, phase, results, obs, log>>

\* the first check done whatever check_first is
LoopCheckFirst_Always ==
    /\ IsLoop
    /\ Top.pc = "check"
    /\ stack' = Append(Goto("test"), Frame(Top.flow.condition_flow))
    /\ UNCHANGED <<script, run, phase, state, err, results, obs, log>>

\* if check_first: self.condition_flow.operate(inputs, state)
LoopCheckFirst ==
    /\ IsLoop
    /\ Top.pc = "check"
    /\ stack' = IF Top.flow.check_first
                   THEN Append(Goto("test"), Frame(Top.flow.condition_flow))
                   ELSE Goto("while")
    /\ UNCHANGED <<script, run, phase, state, err, results, obs, log>>

\* stop = not test_condition(state)
LoopTest ==
    /\ IsLoop
    /\ Top.pc = "test"
    /\ LET r == test_condition(state)
       IN /\ Apply(r, [stack EXCEPT ![Len(stack)].pc = "while",
                                    ![Len(stack)].stop = ~r.val])
          /\ obs' = IF r.exc # "none" THEN obs
                    ELSE [obs EXCEPT ![Top.flow.id].tests = @ + 1,
                                     ![Top.flow.id].first =
                                        IF obs[Top.flow.id].tests = 0 THEN r.val ELSE @]
    /\ UNCHANGED <<script, run, phase, results, log>>

\* while not stop: self.body_flow.operate(inputs, state)
LoopWhile ==
    /\ IsLoop
    /\ Top.pc = "while"
    /\ stack' = IF Top.stop THEN Goto("pop")
                   ELSE Append(Goto("advance"), Frame(Top.flow.body_flow))
    /\ obs' = IF Top.stop THEN obs ELSE [obs EXCEPT ![Top.flow.id].runs = @ + 1]
    /\ UNCHANGED <<script, run, phase, state, err, results, log>>

\* state.advance(self)
LoopAdvance ==
    /\ IsLoop
    /\ Top.pc = "advance"
    /\ Apply(advance(state, Top.flow, None), Goto("condition"))
    /\ obs' = [obs EXCEPT ![Top.flow.id].last = state.values]
    /\ UNCHANGED <<script, run, phase, results, log>>

\* self.condition_flow.operate(inputs, state)
LoopCondition ==
    /\ IsLoop
    /\ Top.pc = "condition"
    /\ stack' = Append(Goto("test"), Frame(Top.flow.condition_flow))
    /\ UNCHANGED <<script, run, phase, state, err, results, obs, log>>

\* state.pop_loop(), then flow_op returns
LoopPop ==
    /\ IsLoop
    /\ Top.pc = "pop"
    /\ Apply(pop_loop(state), Returned)
    /\ obs' = [obs EXCEPT ![Top.flow.id].status = "exited",
                          ![Top.flow.id].exit =
                             IF Top.flow.id \in DOMAIN state.tapes
                                THEN state.tapes[Top.flow.id] ELSE EmptyMap]
    /\ UNCHANGED <<script, run, phase, results, log>>

Next ==
    \/ Construct
    \/ Finish
    \/ OperateUser
    \/ ChainSelf
    \/ ChainOther
    \/ LoopPush
    \/ LoopBaseline
    \/ LoopCheckFirst
    \/ LoopTest
    \/ LoopWhile
    \/ LoopAdvance
    \/ LoopCondition
    \/ LoopPop

Spec == Init /\ [][Next]_vars

\* the driver runs a program whose Loop is re-entered from its own body
InitReentrant ==
    /\ script \in {[kind |-> "single", exprs |-> <<p>>, parts |-> <<>>] :
                      p \in ReentrantPrograms}
    /\ run = 1
    /\ phase = "build"
    /\ state = StateInit
    /\ stack = <<>>
    /\ err = "none"
    /\ results = <<>>
    /\ obs = ObsInit
    /\ log = <<>>

NextReentrant == Next \/ UserRecur

SpecReentrant == InitReentrant /\ [][NextReentrant]_vars

\* the interpreter runs operate to its end: a call that can take a step does
SpecFair == Spec /\ WF_vars(Next)

\* ---------------------------------------------------------------- claims
\* the variables a Loop tracks
Tracked(loop) == {loop.vars[k] : k \in 1..Len(loop.vars)}

\* var is captured by the baseline advance of loop
Baselined(loop, var) ==
    IF loop.initial_vars = None THEN var \in Tracked(loop)
    ELSE \E k \in 1..Len(loop.initial_vars.list) : loop.initial_vars.list[k] = var

\* the history the live Tape of loop id holds for var, empty when it has none
Hist(id, var) ==
    IF id \in DOMAIN state.tapes /\ var \in DOMAIN state.tapes[id]
       THEN state.tapes[id][var] ELSE <<>>

\* loop id has stopped iterating and is about to pop itself
AtExit(id) == IsLoop /\ Top.flow.id = id /\ Top.pc = "pop"

\* the ids of the loops on the loop stack
Active == {state.loops[i].id : i \in 1..Len(state.loops)}

\* N+1 entries, the first the value on entry, the last the value after the
\* final body execution
FullHistory(id, var) ==
    /\ Len(Hist(id, var)) = obs[id].runs + 1
    /\ var \in DOMAIN obs[id].entry
    /\ Hist(id, var)[1] = obs[id].entry[var]
    /\ var \in DOMAIN obs[id].last
    /\ Hist(id, var)[Len(Hist(id, var))] = obs[id].last[var]

\* C1 as stated: whatever check_first, save and initial_vars are, a Loop
\* whose body ran N times holds, when it stops iterating, N+1 Tape entries
\* for every tracked variable, entry 0 the value on entry and the last entry
\* the value after the final body execution.
C1_AnyInitialVars ==
    \A id \in LoopIds :
        AtExit(id) => \A var \in Tracked(Top.flow) : FullHistory(id, var)

\* C1 amended: the same, for every tracked variable that the baseline
\* advance captures (initial_vars is None or lists it) and that has a live
\* value when the loop is entered.
C1_BaselinedVars ==
    \A id \in LoopIds :
        AtExit(id) =>
            \A var \in Tracked(Top.flow) :
                (Baselined(Top.flow, var) /\ var \in DOMAIN obs[id].entry)
                    => FullHistory(id, var)

\* a loop given initial_vars explicitly stops after two or more body runs
C1_Witness ==
    /\ AtExit("L1")
    /\ obs["L1"].runs >= 2
    /\ Top.flow.initial_vars = List(<<"x">>)
    /\ Len(Hist("L1", "x")) = obs["L1"].runs + 1

\* x = 0 >> Loop(x += 1, CONDITION := x < 3, loop_vars=[x], check_first=True,
\* save=True)
Scenario ==
    R(F("InitX", 0),
      L("L1", F("IncX", 0), F("CondXlt", 3), <<"x">>, TRUE, TRUE, None))

ScenarioDone == script.exprs = <<Scenario>> /\ phase = "done"

\* C2: the scenario runs the body exactly 3 times, ends with x = 3 and the
\* Tape its loop recorded for x is [0, 1, 2, 3].
C2_Scenario ==
    ScenarioDone =>
        /\ err = "none"
        /\ obs["L1"].runs = 3
        /\ "x" \in DOMAIN state.values
        /\ state.values["x"] = 3
        /\ obs["L1"].exit = [v \in {"x"} |-> <<0, 1, 2, 3>>]
        /\ Hist("L1", "x") = <<0, 1, 2, 3>>

C2_Witness == ScenarioDone /\ obs["L1"].status = "exited"

\* C3: a loop's counter Var is a key of State.values exactly while the loop
\* is on the loop stack; after pop_loop it is absent, whatever save is.
C3_CounterIffActive ==
    \A id \in LoopIds : Counter(id) \in DOMAIN state.values <=> id \in Active

\* C4: the loops that have an entry in the live tape map State.tapes are
\* exactly the loops on the loop stack; an exited loop has none left.
C4_TapesAreActive == DOMAIN state.tapes = Active

\* C5: once a Loop with save=True has exited, State.saved_tapes holds under
\* that loop the Tape it had when it was popped, and nothing changes it.
C5_SavedTape ==
    \A id \in LoopIds :
        (obs[id].status = "exited" /\ obs[id].loop.save) =>
            /\ id \in DOMAIN state.saved_tapes
            /\ state.saved_tapes[id] = obs[id].exit

\* the driver has run a program CONDITION := c >> switch(yes, no)
SwitchDone == script.exprs[1] \in SwitchPrograms /\ phase = "done"

\* what a switch on condition c should have run after SetCond
SwitchLog(x) ==
    <<"SetCond">> \o (IF x.l.op.arg = 1 THEN <<x.r.yes.op.op>>
                      ELSE IF x.r.no = N THEN <<>> ELSE <<x.r.no.op.op>>)

\* C6: a flow built by switch(yes, no) and invoked with CONDITION set
\* consumes it, runs only yes when it is truthy and only no otherwise, and
\* leaves CONDITION absent.
C6_SwitchDispatch ==
    SwitchDone =>
        /\ err = "none"
        /\ log = SwitchLog(script.exprs[1])
        /\ CONDITION \notin DOMAIN state.values

\* the first condition a check_first loop consumed was false
FirstFalse(id) ==
    /\ obs[id].status # "idle"
    /\ obs[id].loop.check_first
    /\ obs[id].tests >= 1
    /\ ~obs[id].first

\* the Tape of loop id: the live one while it is active, else the one popped
TapeOf(id) ==
    IF obs[id].status = "exited" THEN obs[id].exit
    ELSE IF id \in DOMAIN state.tapes THEN state.tapes[id] ELSE EmptyMap

\* body never ran; after exit with save=False Tape and counter are gone
NeverRanAndGone(id) ==
    /\ obs[id].runs = 0
    /\ (obs[id].status = "exited" /\ ~obs[id].loop.save) =>
          /\ id \notin DOMAIN state.tapes
          /\ Counter(id) \notin DOMAIN state.values

\* C7 as stated: a check_first loop whose first condition is false never
\* runs its body, its Tape has exactly one entry for each tracked variable,
\* and with save=False Tape and counter are gone after exit.
C7_OneEntryEach ==
    \A id \in LoopIds :
        FirstFalse(id) =>
            /\ NeverRanAndGone(id)
            /\ \A var \in Tracked(obs[id].loop) :
                  /\ var \in DOMAIN TapeOf(id)
                  /\ Len(TapeOf(id)[var]) = 1

\* C7 amended: the same, the one entry being there for each tracked
\* variable that the baseline advance captures (initial_vars is None or
\* lists it) and that has a live value when the loop is entered; the other
\* tracked variables have no entry.
C7_OneEntryBaselined ==
    \A id \in LoopIds :
        FirstFalse(id) =>
            /\ NeverRanAndGone(id)
            /\ \A var \in Tracked(obs[id].loop) :
                  IF Baselined(obs[id].loop, var) /\ var \in DOMAIN obs[id].entry
                     THEN /\ var \in DOMAIN TapeOf(id)
                          /\ TapeOf(id)[var] = <<obs[id].entry[var]>>
                     ELSE var \notin DOMAIN TapeOf(id)

\* a save=False loop has exited without running its body, with a baseline
C7_Witness ==
    /\ FirstFalse("L1")
    /\ obs["L1"].status = "exited"
    /\ ~obs["L1"].loop.save
    /\ obs["L1"].exit = [v \in {"x"} |-> <<0>>]
    /\ "L1" \notin DOMAIN state.tapes

\* the driver has run (f >> g) >> h and f >> (g >> h), each on a fresh State
AssocDone == script.kind = "assoc" /\ phase = "done"

\* the names of the user flows among the composed parts, in script order
PartNames == [k \in 1..Len(script.parts) |-> script.parts[k].op.op]

AllUserParts == \A k \in 1..Len(script.parts) : script.parts[k].e = "flow"

\* C8: (f >> g) >> h and f >> (g >> h) execute f, g, h in the same
\* left-to-right order and leave identical final States.
C8_Associative ==
    AssocDone =>
        /\ results[1] = results[2]
        /\ AllUserParts =>
              /\ Len(results[1].log) <= 3
              /\ results[1].log = SubSeq(PartNames, 1, Len(results[1].log))
              /\ results[1].err = "none" => Len(results[1].log) = 3

\* both groupings of x = 0, a Loop and y = x have run without error
C8_Witness ==
    /\ AssocDone
    /\ script.parts[1] = F("InitX", 0)
    /\ script.parts[2].e = "loop"
    /\ script.parts[3] = F("CopyXY", 0)
    /\ results[1].err = "none"
    /\ results[2].state.values = [v \in {"x", "y"} |-> 2]

\* the driver has run f >> None and f, each on a fresh State
IdentDone == script.kind = "ident" /\ phase = "done"

\* C9: operating f >> None leaves exactly the final State that operating
\* f alone leaves.
C9_NoneIdentity == IdentDone => results[1] = results[2]

\* x = 0 >> Loop composed with None has run as the flow alone does
C9_Witness ==
    /\ IdentDone
    /\ script.parts[1].e = "rshift"
    /\ script.parts[1].r.e = "loop"
    /\ results[1].err = "none"
    /\ results[1].log # <<>>

\* the indices a flow may read a history at
Indices == (0 - (MaxLimit + 2))..(MaxLimit + 1)

\* the body of the inner loop L2 is running inside the body of L1
InInnerBody ==
    /\ IsUser
    /\ Len(stack) >= 3
    /\ stack[Len(stack) - 1].flow.kind = "loop"
    /\ stack[Len(stack) - 1].flow.id = "L2"
    /\ stack[Len(stack) - 1].pc = "advance"
    /\ obs["L1"].status = "active"

TupleKey(var, index) == [form |-> "tuple2", var |-> var, index |-> index]

DepthKey(depth, var, index) ==
    [form |-> "tuple3", isLoop |-> FALSE, loop |-> depth, var |-> var, index |-> index]

LoopKey(id, var, index) ==
    [form |-> "tuple3", isLoop |-> TRUE, loop |-> id, var |-> var, index |-> index]

\* Tape.__getitem__ applied to the live Tape of loop id
Entry(id, var, index) == TapeGetItem(state, state.tapes[id], var, index)

C10_Reads ==
    InInnerBody =>
        /\ {"L1", "L2"} \subseteq DOMAIN state.tapes
        /\ \A i \in Indices :
              /\ StateGetItem(state, TupleKey("x", i)) = Entry("L2", "x", i)
              /\ StateGetItem(state, DepthKey(0 - 1, "x", i)) = Entry("L2", "x", i)
              /\ StateGetItem(state, DepthKey(0 - 2, "x", i)) = Entry("L1", "x", i)
              /\ StateGetItem(state, LoopKey("L1", "x", i)) = Entry("L1", "x", i)

C10_InnerAdvance ==
    (IsLoop /\ Top.flow.id = "L2" /\ Top.pc \in {"baseline", "advance"}
        /\ "L1" \in Active)
        => /\ "L1" \in DOMAIN state'.tapes
           /\ state'.tapes["L1"] = state.tapes["L1"]
           /\ state'.tapes["L2"] # state.tapes["L2"]

\* C10: two nested loops tracking the same Var keep separate Tapes:
\* advancing the inner loop leaves the outer loop's history unchanged, and
\* in the inner body state[(var, i)] and state[(-1, var, i)] read the inner
\* Tape while state[(-2, var, i)] and state[(outer, var, i)] read the outer.
C10_IndependentTapes == []C10_Reads /\ [][C10_InnerAdvance]_vars

\* in the inner body, both Tapes hold entries for x and they differ
C10_Witness ==
    /\ InInnerBody
    /\ Len(Hist("L1", "x")) >= 2
    /\ Len(Hist("L2", "x")) >= 1
    /\ StateGetItem(state, DepthKey(0 - 2, "x", 0)).val
         # StateGetItem(state, TupleKey("x", 0)).val

\* the Vars a flow may name
Vars == {"x", "y", "z"}

\* var is named in loop_vars or in initial_vars of loop
Listed(loop, var) ==
    \/ var \in Tracked(loop)
    \/ /\ loop.initial_vars # None
       /\ \E k \in 1..Len(loop.initial_vars.list) : loop.initial_vars.list[k] = var

\* C11: reading a Tape entry of a variable that is in neither loop_vars nor
\* initial_vars of an active loop raises (KeyError, the code's
\* UndefinedVariable) for every index and every read form, and leaves the
\* State as it was.
C11_UntrackedRead ==
    \A d \in 1..Len(state.loops) :
        \A var \in Vars :
            ~Listed(state.loops[d], var) =>
                \A i \in Indices :
                    /\ StateGetItem(state, LoopKey(state.loops[d].id, var, i))
                          = Raise(state, "KeyError")
                    /\ StateGetItem(state, DepthKey(d - Len(state.loops) - 1, var, i))
                          = Raise(state, "KeyError")
                    /\ d = Len(state.loops) =>
                          StateGetItem(state, TupleKey(var, i)) = Raise(state, "KeyError")

\* a flow in a loop that tracks only x has read an entry of y and raised
C11_Witness ==
    /\ err = "KeyError"
    /\ log # <<>>
    /\ log[Len(log)] = "Peek"
    /\ state.loops # <<>>
    /\ ~Listed(state.loops[Len(state.loops)], "y")
    /\ "y" \in DOMAIN state.values

\* an error raised inside operate has reached the driver
Aborted == phase = "run" /\ stack = <<>> /\ err # "none"

\* C12: when the body or condition flow of a Loop raises, the error reaches
\* the caller with the loop stack as it was before the Loop was invoked (here
\* empty) and with no Tape or counter of the aborted loop left in the State.
C12_MatchedOnFailure ==
    Aborted =>
        /\ state.loops = <<>>
        /\ \A id \in LoopIds :
              obs[id].status = "active" =>
                  /\ id \notin DOMAIN state.tapes
                  /\ Counter(id) \notin DOMAIN state.values

\* the condition flow of loop returns without setting CONDITION
Silent(loop) ==
    /\ loop.condition_flow.kind = "flow"
    /\ loop.condition_flow.flow_op.op = "Nop"

\* the loop's test fails and the run aborts there
TestFails ==
    /\ err' = "KeyError"
    /\ stack' = <<>>
    /\ state' = state
    /\ obs' = obs

\* a switch invoked with CONDITION absent fails and runs neither branch
BareSwitchFails ==
    (script.exprs[1] \in BareSwitchPrograms /\ phase = "done") =>
        err # "none" /\ log = <<>>

C14_IllegalCompose ==
    (script.exprs[1] \in ComposePrograms /\ phase # "build") =>
        /\ stack = <<>>
        /\ err # "none"
        /\ state = StateInit
        /\ log = <<>>

\* the positions of the Loop invocations on the control stack
LoopFrames == {i \in 1..Len(stack) : stack[i].flow.kind = "loop"}

\* the latest Tape entry of every tracked variable that was live when the
\* body returned is the value the body left
LatestIsLast(id, loop) ==
    \A var \in Tracked(loop) :
        var \in DOMAIN obs[id].last =>
            /\ Hist(id, var) # <<>>
            /\ Hist(id, var)[Len(Hist(id, var))] = obs[id].last[var]

\* where a Loop invocation stands, against its counter, the number of body
\* executions started and the number of conditions consumed
InOrder(f) ==
    LET id == f.flow.id
        k == obs[id].runs
        first == IF f.flow.check_first THEN 1 ELSE 0
    IN f.pc # "enter" =>
        /\ f.flow.counter \in DOMAIN state.values
        /\ f.pc = "baseline" => state.values[f.flow.counter] = 0 - 1
        /\ f.pc = "check" => state.values[f.flow.counter] = 0 /\ k = 0
        /\ f.pc = "advance" =>
              /\ k >= 1
              /\ state.values[f.flow.counter] = k - 1
              /\ obs[id].tests = k - 1 + first
        /\ f.pc \in {"condition", "test"} =>
              /\ state.values[f.flow.counter] = k
              /\ obs[id].tests = IF k = 0 THEN 0 ELSE k - 1 + first
              /\ k >= 1 => LatestIsLast(id, f.flow)
        /\ f.pc \in {"while", "pop"} =>
              /\ state.values[f.flow.counter] = k
              /\ obs[id].tests = k + first

\* C15: a Loop runs push, baseline advance, the test if check_first, then
\* body, advance, test repeatedly: right after push the counter is -1, after
\* the baseline advance 0, k-1 while the body runs for the k-th time, and k
\* with the latest Tape entries being the values the body left whenever the
\* condition flow runs after the k-th body execution.
C15_StepOrder == \A i \in LoopFrames : InOrder(stack[i])

\* the condition flow of L1 is running after the second body execution
C15_Witness ==
    /\ IsUser
    /\ Len(stack) >= 2
    /\ stack[Len(stack) - 1].flow.kind = "loop"
    /\ stack[Len(stack) - 1].flow.id = "L1"
    /\ stack[Len(stack) - 1].pc = "test"
    /\ obs["L1"].runs = 2
    /\ state.values["counter1"] = 2
    /\ Hist("L1", "x") = <<0, 1, 2>>

\* the condition flow of the Loop invocation f has been called
ConditionCalled(f) ==
    \/ f.pc \in {"condition", "test"}
    \/ f.pc # "enter" /\ obs[f.flow.id].tests >= 1

\* C16: with check_first=False the condition flow is first evaluated only
\* after the first body execution and the advance that follows it, so the
\* body runs at least once; with check_first=True the condition flow is
\* evaluated and CONDITION consumed before any body execution.
C16_CheckFirst ==
    \A i \in LoopFrames :
        LET f == stack[i]
            id == f.flow.id
        IN IF f.flow.check_first
              THEN (f.pc # "enter" /\ obs[id].runs >= 1) => obs[id].tests >= 1
              ELSE /\ (f.pc # "condition" /\ ConditionCalled(f)) =>
                        /\ obs[id].runs >= 1
                        /\ state.values[f.flow.counter] >= 1
                   /\ f.pc = "condition" => f.flow.counter \in DOMAIN state.values
                   /\ f.pc = "condition" => state.values[f.flow.counter] >= 1
                   /\ f.pc = "pop" => obs[id].runs >= 1

\* a check_first=False loop on x < 0 stops after running its body once
C16_Witness ==
    /\ AtExit("L1")
    /\ ~Top.flow.check_first
    /\ Top.flow.condition_flow.kind = "flow"
    /\ Top.flow.condition_flow.flow_op = [op |-> "CondXlt", arg |-> 0]
    /\ obs["L1"].runs = 1
    /\ obs["L1"].tests = 1
    /\ ~obs["L1"].first

\* the driver has run a Loop whose body holds a nested switch
NestedSwitchDone == script.exprs[1] \in NestedSwitchPrograms /\ phase = "done"

\* the value of x after a Loop on x < k over x += 1, entered with x = 0
FinalX(loop) ==
    LET k == loop.cond.op.arg
    IN IF loop.check_first \/ k >= 1 THEN k ELSE 1

\* C17: CONDITION is only transiently present around a Loop: every body
\* execution starts with CONDITION absent, CONDITION is absent when the Loop
\* returns normally, and a CONDITION set and consumed by a switch nested in
\* the body never decides the enclosing loop's test, which stops the loop
\* on its own condition (x < k) only.
C17_TransientCondition ==
    /\ (IsLoop /\ Top.pc \in {"while", "pop"}) =>
            CONDITION \notin DOMAIN state.values
    /\ NestedSwitchDone =>
            /\ err = "none"
            /\ CONDITION \notin DOMAIN state.values
            /\ state.values["x"] = FinalX(script.exprs[1].r)

\* the Loop invocations that have pushed themselves, outermost first
RunningLoops ==
    SelectSeq(stack, LAMBDA f : f.flow.kind = "loop" /\ f.pc # "enter")

\* State.loops holds exactly the running Loop invocations, innermost on top
Mirror ==
    /\ Len(state.loops) = Len(RunningLoops)
    /\ \A i \in 1..Len(RunningLoops) : state.loops[i] = RunningLoops[i].flow

\* the loop's test is about to consume a false CONDITION
ConsumesFalse ==
    /\ IsLoop
    /\ Top.pc = "test"
    /\ test_condition(state).exc = "none"
    /\ ~test_condition(state).val

\* C18: a Loop stops at the first false condition (once its test consumes a
\* false CONDITION the body is not run again and the loop goes to its exit,
\* where it pops itself and returns), every invocation eventually returns to
\* the driver, with the loop stack as on entry when no flow failed, and
\* State.loops always mirrors the running Loop invocations.
C18_StopsAndMirrors ==
    /\ [][ConsumesFalse =>
            /\ stack' = [stack EXCEPT ![Len(stack)].pc = "while",
                                      ![Len(stack)].stop = TRUE]
            /\ obs'[Top.flow.id].runs = obs[Top.flow.id].runs]_vars
    /\ [][(IsLoop /\ Top.pc = "while" /\ Top.stop) =>
            (stack' = Goto("pop") /\ obs' = obs /\ log' = log)]_vars
    /\ [][(IsLoop /\ Top.pc = "pop") =>
            /\ stack' = Returned
            /\ state'.loops = SubSeq(state.loops, 1, Len(state.loops) - 1)]_vars
    /\ Running ~> (stack = <<>> /\ (err = "none" => state.loops = <<>>))
    /\ []Mirror

\* the Loop about to push itself is already on the loop stack
Reentered ==
    /\ IsLoop
    /\ Top.pc = "enter"
    /\ \E i \in 1..Len(state.loops) : state.loops[i].id = Top.flow.id

\* C19: pushing a Loop that is already on the loop stack raises no error,
\* puts it on the stack a second time, replaces its Tape with a fresh empty
\* Tape and resets its counter to -1; the Tape of the outer activation is
\* kept nowhere.
C19_ReentrantOverwrite ==
    [][Reentered =>
        /\ err' = err
        /\ stack' = Goto("baseline")
        /\ state'.loops = Append(state.loops, Top.flow)
        /\ state'.tapes = [state.tapes EXCEPT ![Top.flow.id] = TapeInit]
        /\ state'.values = [state.values EXCEPT ![Top.flow.counter] = 0 - 1]
        /\ state'.saved_tapes = state.saved_tapes]_vars

\* L1 is on the loop stack twice with an empty Tape and counter -1, though
\* its outer activation has captured the baseline of x and run its body
C19_Witness ==
    /\ IsLoop
    /\ Top.pc = "baseline"
    /\ Len(state.loops) = 2
    /\ state.loops[1].id = "L1"
    /\ state.loops[2].id = "L1"
    /\ Top.flow.initial_vars = None
    /\ state.tapes["L1"] = TapeInit
    /\ state.values["counter1"] = 0 - 1
    /\ state.values["x"] = 1
    /\ log = <<"InitX", "CondXlt", "Recur">>

\* the Loop on top is at one of its two calls of state.advance
AtAdvance == IsLoop /\ Top.pc \in {"baseline", "advance"}

\* the variables listed in the call: only_vars, by default the loop's vars
ListedVars ==
    IF Top.pc = "baseline" /\ Top.flow.initial_vars # None
       THEN {Top.flow.initial_vars.list[k] :
                k \in 1..Len(Top.flow.initial_vars.list)}
       ELSE Tracked(Top.flow)

\* the history of var in the Tape t
HistIn(t, var) == IF var \in DOMAIN t THEN t[var] ELSE <<>>

IsPrefix(s, t) == Len(s) <= Len(t) /\ SubSeq(t, 1, Len(s)) = s

\* the effect of advance(loop, only_vars) on the State
AdvanceEffect ==
    LET loop == Top.flow
        old == state.tapes[loop.id]
        new == state'.tapes[loop.id]
    IN /\ err' = err
       /\ state'.values = [state.values EXCEPT ![loop.counter] = @ + 1]
       /\ state'.loops = state.loops
       /\ state'.saved_tapes = state.saved_tapes
       /\ DOMAIN state'.tapes = DOMAIN state.tapes
       /\ \A id \in DOMAIN state.tapes \ {loop.id} :
             state'.tapes[id] = state.tapes[id]
       /\ DOMAIN new \subseteq Vars
       /\ \A var \in Vars :
             HistIn(new, var) =
                IF var \in ListedVars /\ var \in DOMAIN state.values
                   THEN Append(HistIn(old, var), state.values[var])
                   ELSE HistIn(old, var)

\* no variable of an active loop has more Tape entries than counter + 1
EntriesBounded ==
    \A i \in 1..Len(state.loops) :
        LET loop == state.loops[i]
        IN /\ loop.id \in DOMAIN state.tapes
           /\ loop.counter \in DOMAIN state.values
           /\ \A var \in DOMAIN state.tapes[loop.id] :
                 Len(state.tapes[loop.id][var]) <= state.values[loop.counter] + 1

\* the Tape entries of a loop that stays active are kept as they are
EntriesKept ==
    \A i \in 1..Len(state.loops) :
        (i <= Len(state'.loops) /\ state'.loops[i] = state.loops[i]) =>
            LET id == state.loops[i].id
            IN /\ id \in DOMAIN state'.tapes
               /\ \A var \in DOMAIN state.tapes[id] :
                     IsPrefix(state.tapes[id][var], HistIn(state'.tapes[id], var))

\* C20: advance(loop, only_vars) adds exactly 1 to the loop's counter,
\* appends the current value to the history of each listed variable that is
\* in State.values and nothing to any other history, and changes nothing
\* else; so a variable of an active loop never has more than counter + 1
\* entries, and entries are never changed or removed while the loop is
\* active.
C20_AdvanceEffect ==
    /\ [][AtAdvance => AdvanceEffect]_vars
    /\ []EntriesBounded
    /\ [][EntriesKept]_vars

\* after its first body execution a loop on x and y has advanced: x has its
\* baseline and one more entry, y (never assigned) has none
C20_Witness ==
    /\ IsLoop
    /\ Top.pc = "condition"
    /\ Top.flow.id = "L1"
    /\ Top.flow.vars = <<"x", "y">>
    /\ "y" \notin DOMAIN state.values
    /\ "y" \notin DOMAIN state.tapes["L1"]
    /\ state.values["counter1"] = 1
    /\ Hist("L1", "x") = <<0, 1>>

====
